---- MODULE Spec2Model ----
(***************************************************************************)
(* Monomial / Polynomial algebra of structures.py.                         *)
(*                                                                         *)
(* Python objects are modelled by a heap: heap[id] is the Monomial object  *)
(* with identity id, and a Polynomial is its `elements` list, a sequence   *)
(* of ids.  Two lists holding the same id share the object, so an in-place *)
(* update of one (coeffient +=, clean()) is seen through the other.        *)
(***************************************************************************)
EXTENDS Integers, Sequences, FiniteSets, TLC

VARIABLES heap, A, B, regs, pc, string, formatted, current, shelled

vars == <<heap, A, B, regs, pc, string, formatted, current, shelled>>

(***************************************************************************)
(* Bounds of the model.                                                    *)
(***************************************************************************)
\* Polynomial operands: at most MaxLen Monomials, coeffients in
\* -1..MaxCoef without 0, one variable x with powers 1..MaxExp.
MaxLen == 2
MaxCoef == 2
MaxExp == 2
\* Iterations of a loop over a growing list before the model gives up on it.
MaxLoop == 6
\* Monomial operands: coeffients in -MaxTermCoef..MaxTermCoef, variables x
\* and y, each absent or with a nonzero power in -MaxTermExp..MaxTermExp;
\* derivatives of order 0..MaxOrder.
MaxTermCoef == 2
MaxTermExp == 1
MaxOrder == 2
\* Wide Monomial operands: dividends up to MaxWideCoef in magnitude or within
\* MaxWideLow of a power of two near the float's precision, divisors up to
\* MaxDivisor in magnitude.
MaxWideCoef == 4
MaxWideLow == 3
MaxDivisor == 3
\* Texts handed to read: at most MaxStrLen characters.
MaxStrLen == 4
\* Polynomials handed to shell: at most MaxShellLen Monomials, coeffients in
\* -1..MaxShellCoef, the variable x absent or with a nonzero power in
\* -1..MaxShellExp.
MaxShellLen == 3
MaxShellCoef == 2
MaxShellExp == 2

Abs(n) == IF n < 0 THEN -n ELSE n

Range(s) == {s[i] : i \in DOMAIN s}

SeqsUpTo(S, n) == UNION {[1..k -> S] : k \in 0..n}

(***************************************************************************)
(* Monomial                                                                *)
(***************************************************************************)
Monomial(coeffient, variables) ==
    [coeffient |-> coeffient, variables |-> variables]

NoVariables == [v \in {} |-> 0]

OneVariable(name, power) == [v \in {name} |-> power]

\* Monomial.clean: drops the variables whose power is 0.
MonoClean(m) ==
    Monomial(m.coeffient,
             [v \in {k \in DOMAIN m.variables : m.variables[k] # 0}
                 |-> m.variables[v]])

\* dict.get(name, 0)
Get(variables, name) ==
    IF name \in DOMAIN variables THEN variables[name] ELSE 0

\* Monomial.__mul__
MonoMul(self, other) ==
    Monomial(self.coeffient * other.coeffient,
             [name \in (DOMAIN self.variables) \cup (DOMAIN other.variables)
                 |-> Get(self.variables, name) + Get(other.variables, name)])

(***************************************************************************)
(* Integers of any size and the float their true division makes.           *)
(* A magnitude is [hi, lo], of value hi * Limb + lo with 0 <= lo < Limb; a *)
(* wide integer is [sign, hi, lo] with sign in {-1, 0, 1}.  Divisors stay  *)
(* below 16 when the dividend has a hi part.                               *)
(***************************************************************************)
Limb == 2^27

\* sys.float_info.mant_dig: the significant bits of the float `ratio`.
MantDig == 53

Sign(n) == IF n < 0 THEN -1 ELSE IF n = 0 THEN 0 ELSE 1

Mag(hi, lo) == [hi |-> hi + (lo \div Limb), lo |-> lo % Limb]

Wide(n) ==
    [sign |-> Sign(n), hi |-> Abs(n) \div Limb, lo |-> Abs(n) % Limb]

WideOf(sign, m) ==
    [sign |-> IF m.hi = 0 /\ m.lo = 0 THEN 0 ELSE sign,
     hi |-> m.hi, lo |-> m.lo]

MagOf(w) == [hi |-> w.hi, lo |-> w.lo]

\* The int a wide integer is, when it has no hi part to speak of.
Narrow(w) == w.sign * (w.hi * Limb + w.lo)

\* int.bit_length()
RECURSIVE Bits(_)
Bits(n) == IF n = 0 THEN 0 ELSE 1 + Bits(n \div 2)

MagBits(m) == IF m.hi > 0 THEN Bits(Limb - 1) + Bits(m.hi) ELSE Bits(m.lo)

MagOdd(m) == m.lo % 2 = 1

MagSucc(m) == Mag(m.hi, m.lo + 1)

MagDouble(m) == Mag(2 * m.hi, 2 * m.lo)

MagHalf(m) == Mag(m.hi \div 2, (m.hi % 2) * (Limb \div 2) + (m.lo \div 2))

\* divmod(m, b) for an int b > 0
MagDivMod(m, b) ==
    LET t == (m.hi % b) * Limb + m.lo
    IN  [q |-> Mag(m.hi \div b, t \div b), r |-> t % b]

\* The first f binary places of r / b (0 <= r < b): whether they are all 0,
\* all 1, whether the last kept place is odd (`odd` stands for the place
\* before them when f = 0), and the remainder they leave.  The places are
\* produced one by one until the answer is settled: all the rest are 0
\* once r = 0, and once a 0 and a 1 have been seen neither `zeros` nor
\* `ones` can hold (odd and r are then not looked at).
RECURSIVE FracBits(_, _, _, _)
FracBits(r, b, f, acc) ==
    IF f = 0
    THEN [zeros |-> acc.zeros, ones |-> acc.ones, odd |-> acc.odd, r |-> r]
    ELSE IF r = 0
    THEN [zeros |-> acc.zeros, ones |-> FALSE, odd |-> FALSE, r |-> 0]
    ELSE IF ~acc.zeros /\ ~acc.ones
    THEN [zeros |-> FALSE, ones |-> FALSE, odd |-> acc.odd, r |-> r]
    ELSE LET bit == IF 2 * r >= b THEN 1 ELSE 0
         IN  FracBits(2 * r - bit * b, b, f - 1,
                      [zeros |-> acc.zeros /\ bit = 0,
                       ones |-> acc.ones /\ bit = 1,
                       odd |-> bit = 1])

\* ratio = a / b for the magnitude a < 2^(MantDig + 1) and the int b > 0:
\* the quotient rounded to MantDig significant bits, ties to even;
\* ratio.is_integer() and int(ratio).
TrueDiv(a, b) ==
    LET d == MagDivMod(a, b)
        f == MantDig - MagBits(d.q)
        half == MagHalf(d.q)
        fr == FracBits(d.r, b, f,
                       [zeros |-> TRUE, ones |-> TRUE, odd |-> MagOdd(d.q)])
        up == IF f < 0
              THEN MagOdd(d.q) /\ (d.r # 0 \/ MagOdd(half))
              ELSE 2 * fr.r > b \/ (2 * fr.r = b /\ fr.odd)
    IN  IF f < 0
        THEN [is_integer |-> TRUE,
              int |-> MagDouble(IF up THEN MagSucc(half) ELSE half)]
        ELSE IF fr.zeros /\ ~up /\ (d.r = 0 \/ d.q # Mag(0, 0))
        THEN [is_integer |-> TRUE, int |-> d.q]
        ELSE IF fr.ones /\ up
        THEN [is_integer |-> TRUE, int |-> MagSucc(d.q)]
        ELSE [is_integer |-> FALSE, int |-> Mag(0, 0)]

\* Monomial.__div__ / __truediv__ of Monomials whose coeffients are wide
\* integers: the result, or the exception raised.
MonoDivWide(self, other) ==
    LET variables ==
            [name \in (DOMAIN self.variables) \cup (DOMAIN other.variables)
                |-> Get(self.variables, name) - Get(other.variables, name)]
        ratio == TrueDiv(MagOf(self.coeffient),
                         Narrow(WideOf(1, MagOf(other.coeffient))))
        none == Monomial(Wide(0), NoVariables)
    IN  IF other.coeffient.sign = 0
        THEN [st |-> "ZeroDivisionError", val |-> none]
        ELSE IF ~ratio.is_integer
        THEN [st |-> "ValueError", val |-> none]
        ELSE [st |-> "ok",
              val |-> Monomial(WideOf(self.coeffient.sign
                                        * other.coeffient.sign, ratio.int),
                               variables)]

\* Monomial.__div__ / __truediv__ of Monomials whose coeffients are ints.
MonoDiv(self, other) ==
    LET q == MonoDivWide(Monomial(Wide(self.coeffient), self.variables),
                         Monomial(Wide(other.coeffient), other.variables))
    IN  [st |-> q.st,
         val |-> Monomial(Narrow(q.val.coeffient), q.val.variables)]

\* Monomial.derivative(self, n): the returned value, or the exception.
\* For n >= 1 the receiver is cleaned first (see MonoDerivativeSelf).
RECURSIVE MonoDerivative(_, _)
MonoDerivative(self, n) ==
    IF n = 0 THEN [st |-> "ok", val |-> self]
    ELSE LET m == MonoClean(self)
         IN  IF DOMAIN m.variables = {}
             THEN [st |-> "ok", val |-> Monomial(0, NoVariables)]
             ELSE IF Cardinality(DOMAIN m.variables) > 1
             THEN [st |-> "ValueError", val |-> Monomial(0, NoVariables)]
             ELSE LET var == CHOOSE v \in DOMAIN m.variables : TRUE
                  IN  MonoDerivative(
                          Monomial(m.coeffient * m.variables[var],
                                   OneVariable(var, m.variables[var] - 1)),
                          n - 1)

\* What Monomial.derivative(self, n) leaves in the receiver: self.clean()
\* for n >= 1, nothing for n = 0.
MonoDerivativeSelf(self, n) == IF n = 0 THEN self ELSE MonoClean(self)

(***************************************************************************)
(* Polynomial                                                              *)
(***************************************************************************)
\* The sort key of Polynomial.__init__.
MaxPower(variables) ==
    CHOOSE p \in {variables[v] : v \in DOMAIN variables} :
        \A v \in DOMAIN variables : variables[v] <= p

SortKey(m) == IF DOMAIN m.variables = {} THEN 0 ELSE MaxPower(m.variables)

\* sorted(..., reverse=True) is stable: an element goes after every element
\* whose key is at least its own.
RECURSIVE InsertByKey(_, _, _)
InsertByKey(h, sorted, id) ==
    IF sorted = <<>> THEN <<id>>
    ELSE IF SortKey(h[Head(sorted)]) >= SortKey(h[id])
    THEN <<Head(sorted)>> \o InsertByKey(h, Tail(sorted), id)
    ELSE <<id>> \o sorted

\* Polynomial.__init__: the elements sorted by key, descending.  Nothing is
\* combined, dropped or copied.
RECURSIVE PolyInit(_, _)
PolyInit(h, elements) ==
    IF elements = <<>> THEN <<>>
    ELSE InsertByKey(h,
                     PolyInit(h, SubSeq(elements, 1, Len(elements) - 1)),
                     elements[Len(elements)])

\* The Monomial values of a Polynomial, in order.
PolyVal(h, elements) == [i \in DOMAIN elements |-> h[elements[i]]]

\* deepcopy(self): every Monomial object is copied once.
DeepCopy(h, elements) ==
    LET n == Len(elements)
        first(i) == CHOOSE j \in 1..i :
                        /\ elements[j] = elements[i]
                        /\ \A k \in 1..(j - 1) : elements[k] # elements[i]
    IN  [heap |-> h \o [i \in 1..n |-> h[elements[i]]],
         elements |-> [i \in 1..n |-> Len(h) + first(i)]]

\* The first element whose variables equal `variables` (0: none).
FindLike(h, elements, variables) ==
    IF \E k \in DOMAIN elements : h[elements[k]].variables = variables
    THEN CHOOSE k \in DOMAIN elements :
            /\ h[elements[k]].variables = variables
            /\ \A l \in 1..(k - 1) : h[elements[l]].variables # variables
    ELSE 0

\* The loop of Polynomial.__add__ from other.elements[j] on.
RECURSIVE AddLoop(_, _, _, _)
AddLoop(h, copy, other, j) ==
    IF j > Len(other) THEN [st |-> "ok", heap |-> h, elements |-> copy]
    ELSE LET oe == other[j]
             k == FindLike(h, copy, h[oe].variables)
         IN  IF k # 0
             THEN AddLoop([h EXCEPT ![copy[k]].coeffient =
                                        @ + h[oe].coeffient],
                          copy, other, j + 1)
             ELSE AddLoop(h, Append(copy, oe), other, j + 1)

\* Polynomial.__add__
PolyAdd(h, self, other) ==
    LET c == DeepCopy(h, self)
    IN  AddLoop(c.heap, c.elements, other, 1)

\* The loop of Polynomial.__sub__ from copy.elements[i] on.  It iterates
\* over copy.elements while appending to it, so it also visits what it
\* appended; "running" is a loop still going after MaxLoop iterations.
RECURSIVE SubLoop(_, _, _, _)
SubLoop(h, copy, other, i) ==
    IF i > Len(copy) THEN [st |-> "ok", heap |-> h, elements |-> copy]
    ELSE IF i > MaxLoop
    THEN [st |-> "running", heap |-> h, elements |-> copy]
    ELSE LET oe == copy[i]
             k == FindLike(h, other, h[oe].variables)
         IN  IF k # 0
             THEN SubLoop([h EXCEPT ![other[k]].coeffient =
                                        @ - h[oe].coeffient],
                          copy, other, i + 1)
             ELSE SubLoop(Append(h, Monomial(-h[oe].coeffient,
                                             h[oe].variables)),
                          Append(copy, Len(h) + 1), other, i + 1)

\* Polynomial.__sub__
PolySub(h, self, other) ==
    LET c == DeepCopy(h, self)
    IN  SubLoop(c.heap, c.elements, other, 1)

\* Polynomial.__mul__: `se *= oe` rebinds the loop variable to a new
\* Monomial and stores it nowhere, so the copy is returned as it was made.
PolyMul(h, self, other) ==
    LET c == DeepCopy(h, self)
    IN  [st |-> "ok", heap |-> c.heap, elements |-> c.elements]

\* The loops of Polynomial.__div__ at copy.elements[i], other.elements[j]:
\* copy.elements[i] = se / oe, with se the element found at i when the
\* outer loop reached it.
RECURSIVE DivLoop(_, _, _, _, _, _)
DivLoop(h, copy, other, i, j, se) ==
    IF i > Len(copy) THEN [st |-> "ok", heap |-> h, elements |-> copy]
    ELSE IF j > Len(other)
    THEN IF i + 1 > Len(copy)
         THEN [st |-> "ok", heap |-> h, elements |-> copy]
         ELSE DivLoop(h, copy, other, i + 1, 1, copy[i + 1])
    ELSE LET q == MonoDiv(h[se], h[other[j]])
         IN  IF q.st # "ok"
             THEN [st |-> q.st, heap |-> h, elements |-> copy]
             ELSE DivLoop(Append(h, q.val),
                          [copy EXCEPT ![i] = Len(h) + 1],
                          other, i, j + 1, se)

\* Polynomial.__div__ / __truediv__
PolyDiv(h, self, other) ==
    LET c == DeepCopy(h, self)
    IN  IF c.elements = <<>>
        THEN [st |-> "ok", heap |-> c.heap, elements |-> c.elements]
        ELSE DivLoop(c.heap, c.elements, other, 1, 1, c.elements[1])

\* del elements[k]
DelAt(elements, k) ==
    SubSeq(elements, 1, k - 1) \o SubSeq(elements, k + 1, Len(elements))

\* The inner loop of Polynomial.combine_like_terms for the element at i,
\* over the snapshot elements[i + 1:] from its j-th entry on.
RECURSIVE CombineInner(_, _, _, _, _, _)
CombineInner(h, elements, i, snapshot, j, changes) ==
    IF j > Len(snapshot) THEN [heap |-> h, elements |-> elements]
    ELSE LET element == elements[i]
             other == snapshot[j]
         IN  IF h[element].variables = h[other].variables
             THEN CombineInner(
                      [h EXCEPT ![element].coeffient =
                                    @ + h[other].coeffient],
                      DelAt(elements, j + i - changes),
                      i, snapshot, j + 1, changes + 1)
             ELSE CombineInner(h, elements, i, snapshot, j + 1, changes)

\* Polynomial.combine_like_terms from elements[i] on: element.clean(), then
\* the inner loop.  Only the element at i is cleaned before it is compared.
RECURSIVE CombineLikeTerms(_, _, _)
CombineLikeTerms(h, elements, i) ==
    IF i > Len(elements) THEN [heap |-> h, elements |-> elements]
    ELSE LET h1 == [h EXCEPT ![elements[i]] = MonoClean(@)]
             r == CombineInner(h1, elements, i,
                               SubSeq(elements, i + 1, Len(elements)), 1, 0)
         IN  CombineLikeTerms(r.heap, r.elements, i + 1)

\* Polynomial.clean: map(Monomial.clean, ...) is never consumed, so it
\* cleans nothing; the elements are sorted again and like terms combined.
PolyClean(h, elements) == CombineLikeTerms(h, PolyInit(h, elements), 1)

\* map(partial(Monomial.derivative, n=n), self.elements) from elements[i]
\* on: every receiver is cleaned, every result is a new object (for n >= 1).
RECURSIVE DerivMap(_, _, _, _, _)
DerivMap(h, elements, n, i, out) ==
    IF i > Len(elements) THEN [st |-> "ok", heap |-> h, elements |-> out]
    ELSE LET d == MonoDerivative(h[elements[i]], n)
             h1 == [h EXCEPT ![elements[i]] = MonoDerivativeSelf(@, n)]
         IN  IF d.st # "ok"
             THEN [st |-> d.st, heap |-> h1, elements |-> out]
             ELSE IF n = 0
             THEN DerivMap(h1, elements, n, i + 1, Append(out, elements[i]))
             ELSE DerivMap(Append(h1, d.val), elements, n, i + 1,
                           Append(out, Len(h1) + 1))

\* Polynomial.derivative
PolyDerivative(h, self, n) ==
    LET m == DerivMap(h, self, n, 1, <<>>)
    IN  IF m.st # "ok" THEN m
        ELSE LET c == PolyClean(m.heap, m.elements)
             IN  [st |-> "ok", heap |-> c.heap, elements |-> c.elements]

(***************************************************************************)
(* Results of calls                                                        *)
(***************************************************************************)
\* A register holds the outcome of one call: the method, how it ended
\* ("ok", the exception's name, or "running"), the elements of the returned
\* Polynomial, and the values the operands had when the call was made.
NoResult ==
    [op |-> "none", st |-> "none", elements |-> <<>>,
     in1 |-> <<>>, in2 |-> <<>>]

RegNames == {"R", "S", "D", "DA", "DB", "DS"}

Result(op, r, in1, in2) ==
    [op |-> op, st |-> r.st,
     elements |-> IF r.st = "ok" THEN r.elements ELSE <<>>,
     in1 |-> in1, in2 |-> in2]

Returned(reg) == regs[reg].st = "ok"

\* The Monomial values of the Polynomial in a register.
RegVal(reg) == PolyVal(heap, regs[reg].elements)

(***************************************************************************)
(* Spec: Polynomial arithmetic and derivative on two operands A and B      *)
(***************************************************************************)
Coefs == (-1..MaxCoef) \ {0}

Terms ==
    {Monomial(c, vs) :
        c \in Coefs,
        vs \in {NoVariables} \cup {OneVariable("x", p) : p \in 1..MaxExp}}

\* A = Polynomial(la), B = Polynomial(lb) for two lists of Monomials.
Init ==
    \E la \in SeqsUpTo(Terms, MaxLen), lb \in SeqsUpTo(Terms, MaxLen) :
        /\ heap = la \o lb
        /\ A = PolyInit(la \o lb, [i \in 1..Len(la) |-> i])
        /\ B = PolyInit(la \o lb, [i \in 1..Len(lb) |-> Len(la) + i])
        /\ regs = [r \in RegNames |-> NoResult]
        /\ pc = "start"
        /\ string = <<>>
        /\ formatted = <<>>
        /\ current = <<>>
        /\ shelled = <<>>

\* reg := the outcome r of method op, called at position pc, moving to next.
Call(reg, op, r, in1, in2, next) ==
    /\ heap' = r.heap
    /\ regs' = [regs EXCEPT ![reg] = Result(op, r, in1, in2)]
    /\ pc' = next
    /\ UNCHANGED <<A, B, string, formatted, current, shelled>>

\* R = A + B
Add ==
    /\ pc = "start"
    /\ Call("R", "add", PolyAdd(heap, A, B),
            PolyVal(heap, A), PolyVal(heap, B), "added")

\* R = A - B
Sub ==
    /\ pc = "start"
    /\ Call("R", "sub", PolySub(heap, A, B),
            PolyVal(heap, A), PolyVal(heap, B), "arith")

\* R = A * B
Mul ==
    /\ pc = "start"
    /\ Call("R", "mul", PolyMul(heap, A, B),
            PolyVal(heap, A), PolyVal(heap, B), "arith")

\* R = A / B
Div ==
    /\ pc = "start"
    /\ Call("R", "div", PolyDiv(heap, A, B),
            PolyVal(heap, A), PolyVal(heap, B), "arith")

\* R = A - A
SubSelf ==
    /\ pc = "start"
    /\ Call("R", "subself", PolySub(heap, A, A),
            PolyVal(heap, A), PolyVal(heap, A), "arith")

\* R.clean(): a later in-place update of the result.
CleanResult ==
    /\ pc \in {"arith", "added"}
    /\ Returned("R")
    /\ LET c == PolyClean(heap, regs["R"].elements)
       IN  /\ heap' = c.heap
           /\ regs' = [regs EXCEPT !["R"].elements = c.elements]
    /\ pc' = "cleaned"
    /\ UNCHANGED <<A, B, string, formatted, current, shelled>>

\* S = B + A
AddReversed ==
    /\ pc = "added"
    /\ Call("S", "add", PolyAdd(heap, B, A),
            PolyVal(heap, B), PolyVal(heap, A), "commuted")

\* D = (A + B).derivative()
DerivativeOfSum ==
    /\ pc = "commuted"
    /\ Call("D", "derivative", PolyDerivative(heap, regs["R"].elements, 1),
            RegVal("R"), <<>>, "dsum")

\* DA = A.derivative()
DerivativeA ==
    /\ pc = "dsum"
    /\ Call("DA", "derivative", PolyDerivative(heap, A, 1),
            PolyVal(heap, A), <<>>, "da")

\* DB = B.derivative()
DerivativeB ==
    /\ pc = "da"
    /\ Call("DB", "derivative", PolyDerivative(heap, B, 1),
            PolyVal(heap, B), <<>>, "db")

\* DS = A.derivative() + B.derivative()
AddDerivatives ==
    /\ pc = "db"
    /\ Returned("DA") /\ Returned("DB")
    /\ Call("DS", "add",
            PolyAdd(heap, regs["DA"].elements, regs["DB"].elements),
            RegVal("DA"), RegVal("DB"), "done")

Next ==
    \/ Add
    \/ Sub
    \/ Mul
    \/ Div
    \/ SubSelf
    \/ CleanResult
    \/ AddReversed
    \/ DerivativeOfSum
    \/ DerivativeA
    \/ DerivativeB
    \/ AddDerivatives

Spec == Init /\ [][Next]_vars

(***************************************************************************)
(* Claims about Polynomial arithmetic (checked under Spec)                 *)
(***************************************************************************)
\* The multiset of Monomial values of a sequence.
BagOf(seq) ==
    [t \in Range(seq) |-> Cardinality({i \in DOMAIN seq : seq[i] = t})]

ArithOps == {"add", "sub", "mul", "div", "subself"}

\* C1: a returned A+B, A-B, A*B or A/B leaves the Monomials of both operands
\* (coeffients and powers) exactly as they were before the call, and so does
\* a later in-place update of the result.
C1_OperandsUnchanged ==
    (regs["R"].op \in ArithOps /\ Returned("R")
        /\ pc \in {"arith", "added", "cleaned"})
    => /\ PolyVal(heap, A) = regs["R"].in1
       /\ regs["R"].op # "subself" => PolyVal(heap, B) = regs["R"].in2

\* Canonical form: no two Monomials with the same powers, no coeffient 0,
\* sorted by degree, descending.
Canonical(p) ==
    /\ \A i, j \in DOMAIN p : i # j => p[i].variables # p[j].variables
    /\ \A i \in DOMAIN p : p[i].coeffient # 0
    /\ \A i, j \in DOMAIN p : i < j => SortKey(p[i]) >= SortKey(p[j])

\* C2: every Polynomial is in canonical form, right after construction and
\* as the result of an arithmetic operation or a derivative.
C2_AlwaysCanonical ==
    /\ Canonical(PolyVal(heap, A))
    /\ Canonical(PolyVal(heap, B))
    /\ \A r \in RegNames : Returned(r) => Canonical(RegVal(r))

\* The sum of the coeffient products a[i] * b[j] over a set of index pairs.
RECURSIVE SumProducts(_, _, _)
SumProducts(a, b, pairs) ==
    IF pairs = {} THEN 0
    ELSE LET ij == CHOOSE q \in pairs : TRUE
         IN  a[ij[1]].coeffient * b[ij[2]].coeffient
                + SumProducts(a, b, pairs \ {ij})

\* The powers of the product of a[i] and b[j]: exponents added, a variable
\* of exponent 0 absent.
ProductPowers(a, b, i, j) == MonoClean(MonoMul(a[i], b[j])).variables

\* The full polynomial product of two sequences of Monomials, as the set of
\* its Monomials: like terms combined, zero terms dropped.
FullProduct(a, b) ==
    LET pairs == (DOMAIN a) \X (DOMAIN b)
        powers == {ProductPowers(a, b, q[1], q[2]) : q \in pairs}
        coef(vs) == SumProducts(a, b,
                        {q \in pairs : ProductPowers(a, b, q[1], q[2]) = vs})
    IN  {Monomial(coef(vs), vs) : vs \in {w \in powers : coef(w) # 0}}

\* C3: A*B is the full polynomial product: the combined sum of a*b over
\* every Monomial a of A and b of B, each product present once.
C3_MulIsFullProduct ==
    (regs["R"].op = "mul" /\ Returned("R") /\ pc = "arith")
    => /\ Range(RegVal("R")) = FullProduct(regs["R"].in1, regs["R"].in2)
       /\ Cardinality(Range(RegVal("R"))) = Len(regs["R"].elements)

\* C4: A - A is the zero Polynomial, the one with no elements.
C4_SubSelfIsZero ==
    (regs["R"].op = "subself" /\ Returned("R") /\ pc = "arith")
    => regs["R"].elements = <<>>

\* C5: A+B and B+A have the same multiset of Monomials.
C5_AddCommutes ==
    (pc = "commuted" /\ Returned("R") /\ Returned("S"))
    => BagOf(RegVal("R")) = BagOf(RegVal("S"))

\* C8: derivative(A+B) and derivative(A) + derivative(B) have the same
\* multiset of Monomials.
C8_DerivativeLinear ==
    (pc = "done" /\ Returned("D") /\ Returned("DS"))
    => BagOf(RegVal("D")) = BagOf(RegVal("DS"))

(***************************************************************************)
(* SpecTerm: Monomial arithmetic and derivative on two operands            *)
(*           heap[A[1]] and heap[B[1]]                                     *)
(***************************************************************************)
TermPowers == ((-MaxTermExp)..MaxTermExp) \ {0}

TermVariables ==
    UNION {[names -> TermPowers] : names \in SUBSET {"x", "y"}}

TermOperands ==
    {Monomial(c, vs) :
        c \in (-MaxTermCoef)..MaxTermCoef, vs \in TermVariables}

InitTerm ==
    \E a \in TermOperands, b \in TermOperands :
        /\ heap = <<a, b>>
        /\ A = <<1>>
        /\ B = <<2>>
        /\ regs = [r \in RegNames |-> NoResult]
        /\ pc = "start"
        /\ string = <<>>
        /\ formatted = <<>>
        /\ current = <<>>
        /\ shelled = <<>>

\* The outcome of a Monomial method that allocates its result: q is
\* [st, val]; h is the heap the call leaves behind.
NewMonomial(h, q) ==
    IF q.st = "ok"
    THEN [st |-> "ok", heap |-> Append(h, q.val), elements |-> <<Len(h) + 1>>]
    ELSE [st |-> q.st, heap |-> h, elements |-> <<>>]

\* R = a * b
TermMul ==
    /\ pc = "start"
    /\ Call("R", "mono_mul",
            NewMonomial(heap, [st |-> "ok",
                               val |-> MonoMul(heap[A[1]], heap[B[1]])]),
            <<heap[A[1]]>>, <<heap[B[1]]>>, "called")

\* R = a / b
TermDiv ==
    /\ pc = "start"
    /\ Call("R", "mono_div",
            NewMonomial(heap, MonoDiv(heap[A[1]], heap[B[1]])),
            <<heap[A[1]]>>, <<heap[B[1]]>>, "called")

\* R = a.derivative(n): for n = 0 the receiver itself is returned.
TermDerivative ==
    /\ pc = "start"
    /\ \E n \in 0..MaxOrder :
        LET h1 == [heap EXCEPT ![A[1]] = MonoDerivativeSelf(@, n)]
            d == MonoDerivative(heap[A[1]], n)
        IN  Call("R", "mono_derivative",
                 IF n = 0
                 THEN [st |-> "ok", heap |-> h1, elements |-> <<A[1]>>]
                 ELSE NewMonomial(h1, d),
                 <<heap[A[1]]>>, <<>>, "called")

NextTerm ==
    \/ TermMul
    \/ TermDiv
    \/ TermDerivative

SpecTerm == InitTerm /\ [][NextTerm]_vars

\* The Monomial a returned call left in R.
ResultTerm == heap[regs["R"].elements[1]]

\* C6: a Monomial returned by *, / or derivative has only nonzero powers: a
\* variable whose resulting exponent is 0 is absent, so that x * x^-1 is
\* the constant Monomial 1.
C6_NoZeroPowers ==
    (regs["R"].op \in {"mono_mul", "mono_div", "mono_derivative"}
        /\ Returned("R"))
    => \A v \in DOMAIN ResultTerm.variables : ResultTerm.variables[v] # 0

(***************************************************************************)
(* SpecWide: Monomial division on operands heap[A[1]] and heap[B[1]] whose *)
(*           coeffients are wide integers                                  *)
(***************************************************************************)
\* Dividends: the ints up to MaxWideCoef in magnitude, and the integers up
\* to MaxWideLow above 2^(MantDig - 2), 2^(MantDig - 1) and 2^MantDig or
\* below 2^(MantDig + 1).
WideDividends ==
    {Wide(n) : n \in (-MaxWideCoef)..MaxWideCoef}
    \cup {[sign |-> s, hi |-> hi, lo |-> lo] :
            s \in {-1, 1},
            hi \in {Limb \div 8, Limb \div 4, Limb \div 2},
            lo \in 0..MaxWideLow}
    \cup {[sign |-> s, hi |-> Limb - 1, lo |-> Limb - 1 - k] :
            s \in {-1, 1}, k \in 0..MaxWideLow}

WideDivisors == {Wide(n) : n \in (-MaxDivisor)..MaxDivisor}

InitWide ==
    \E a \in WideDividends, b \in WideDivisors,
       va \in TermVariables, vb \in TermVariables :
        /\ heap = <<Monomial(a, va), Monomial(b, vb)>>
        /\ A = <<1>>
        /\ B = <<2>>
        /\ regs = [r \in RegNames |-> NoResult]
        /\ pc = "start"
        /\ string = <<>>
        /\ formatted = <<>>
        /\ current = <<>>
        /\ shelled = <<>>

\* R = a / b
TermDivWide ==
    /\ pc = "start"
    /\ Call("R", "mono_div",
            NewMonomial(heap, MonoDivWide(heap[A[1]], heap[B[1]])),
            <<heap[A[1]]>>, <<heap[B[1]]>>, "called")

NextWide == TermDivWide

SpecWide == InitWide /\ [][NextWide]_vars

\* The wide integer b divides the wide integer a.
WideDivides(b, a) == MagDivMod(MagOf(a), Narrow(WideOf(1, MagOf(b)))).r = 0

\* The product of the wide integers q and b.
WideTimes(q, b) ==
    LET n == Narrow(WideOf(1, MagOf(b)))
    IN  WideOf(q.sign * b.sign, Mag(q.hi * n, q.lo * n))

\* C7: a / b with integer coeffients and b's coeffient nonzero leaves both
\* operands unchanged; if b's coeffient does not divide a's it fails with
\* the not-divisible error; otherwise it returns a Monomial whose coeffient
\* times b's is a's and whose power of every variable of a or b is a's
\* minus b's (absent = 0).
C7_TermDivision ==
    (regs["R"].op = "mono_div" /\ regs["R"].in2[1].coeffient.sign # 0)
    => LET a == regs["R"].in1[1]
           b == regs["R"].in2[1]
       IN  /\ heap[A[1]] = a
           /\ heap[B[1]] = b
           /\ IF ~WideDivides(b.coeffient, a.coeffient)
              THEN regs["R"].st = "ValueError"
              ELSE /\ Returned("R")
                   /\ WideTimes(ResultTerm.coeffient, b.coeffient)
                        = a.coeffient
                   /\ \A v \in (DOMAIN a.variables) \cup (DOMAIN b.variables) :
                        /\ v \in DOMAIN ResultTerm.variables
                        /\ ResultTerm.variables[v]
                             = Get(a.variables, v) - Get(b.variables, v)

(***************************************************************************)
(* Text: a string is a sequence of characters; "sup0".."sup9" stand for    *)
(* the superscript digits of _super_list.                                  *)
(***************************************************************************)
DigitChars == <<"0", "1", "2", "3", "4", "5", "6", "7", "8", "9">>

SuperList ==
    <<"sup0", "sup1", "sup2", "sup3", "sup4",
      "sup5", "sup6", "sup7", "sup8", "sup9">>

SuperMinus == "sup-"

\* The variable names of the model, in the order sorted() gives them.
Letters == <<"x", "y">>

IsDigit(c) == c \in Range(DigitChars)

IsSuper(c) == c \in Range(SuperList)

IsLetter(c) == c \in Range(Letters)

\* list.index / int() of one character
IndexIn(list, c) == (CHOOSE i \in DOMAIN list : list[i] = c) - 1

\* str.lower() of one character
Lower(c) == CASE c = "X" -> "x" [] c = "Y" -> "y" [] OTHER -> c

\* str(string).lower().replace(" ", "")
RECURSIVE Normalize(_)
Normalize(s) ==
    IF s = <<>> THEN <<>>
    ELSE IF Head(s) = " " THEN Normalize(Tail(s))
    ELSE <<Lower(Head(s))>> \o Normalize(Tail(s))

\* The length of the longest prefix of s whose characters satisfy Is.
RECURSIVE PrefixLen(_, _)
PrefixLen(s, Class) ==
    IF s = <<>> \/ Head(s) \notin Class THEN 0
    ELSE 1 + PrefixLen(Tail(s), Class)

Drop(s, n) == SubSeq(s, n + 1, Len(s))

\* The group "coef" of the regex: [+-]?[0-9]*
CoefMatch(s) ==
    LET sign == IF s # <<>> /\ Head(s) \in {"+", "-"} THEN 1 ELSE 0
    IN  SubSeq(s, 1, sign + PrefixLen(Drop(s, sign), Range(DigitChars)))

\* Whether s matches the group "variables" of the regex to its end:
\* ([a-zA-Z](\^[0-9]+|(superscript+)?))*
RECURSIVE VariablesMatch(_)
VariablesMatch(s) ==
    IF s = <<>> THEN TRUE
    ELSE IF ~IsLetter(Head(s)) THEN FALSE
    ELSE LET rest == Tail(s)
         IN  IF rest # <<>> /\ Head(rest) = "^"
             THEN LET n == PrefixLen(Tail(rest), Range(DigitChars))
                  IN  n >= 1 /\ VariablesMatch(Drop(rest, n + 1))
             ELSE VariablesMatch(
                      Drop(rest, PrefixLen(rest, Range(SuperList))))

\* int() of a string of digits
RECURSIVE DigitsValue(_)
DigitsValue(s) ==
    IF s = <<>> THEN 0
    ELSE 10 * DigitsValue(SubSeq(s, 1, Len(s) - 1))
            + IndexIn(DigitChars, s[Len(s)])

\* The match statement on coef_match.
ReadCoef(coef_match) ==
    IF coef_match = <<"+">> THEN 1
    ELSE IF coef_match = <<"-">> THEN -1
    ELSE IF coef_match = <<>> THEN 1
    ELSE IF Head(coef_match) = "-" THEN -DigitsValue(Tail(coef_match))
    ELSE IF Head(coef_match) = "+" THEN DigitsValue(Tail(coef_match))
    ELSE DigitsValue(coef_match)

\* variables.setdefault(current_var, 0); variables[current_var] += num,
\* with 1 for a current_num of None (the empty sequence).
Accumulate(variables, current_var, current_num) ==
    LET add == IF current_num = <<>> THEN 1 ELSE current_num[1]
    IN  [v \in (DOMAIN variables) \cup {current_var}
            |-> Get(variables, v) + (IF v = current_var THEN add ELSE 0)]

\* current_num *= 10; current_num += d, from None or from a number.
PushDigit(current_num, d) ==
    <<10 * (IF current_num = <<>> THEN 0 ELSE current_num[1]) + d>>

\* The character loop of Monomial.read and the final flush.  current_var is
\* <<>> for None.
RECURSIVE ReadLoop(_, _, _, _)
ReadLoop(s, variables, current_var, current_num) ==
    IF s = <<>>
    THEN IF current_var # <<>>
         THEN Accumulate(variables, current_var[1], current_num)
         ELSE variables
    ELSE LET char == Head(s)
         IN  IF IsLetter(char)
             THEN ReadLoop(Tail(s),
                           IF current_var # <<>>
                           THEN Accumulate(variables, current_var[1],
                                           current_num)
                           ELSE variables,
                           <<char>>, <<>>)
             ELSE IF char = "^"
             THEN ReadLoop(Tail(s), variables, current_var, current_num)
             ELSE IF IsDigit(char)
             THEN ReadLoop(Tail(s), variables, current_var,
                           PushDigit(current_num, IndexIn(DigitChars, char)))
             ELSE ReadLoop(Tail(s), variables, current_var,
                           PushDigit(current_num, IndexIn(SuperList, char)))

\* Monomial.read: the Monomial read, or ValueError.
MonoRead(text) ==
    LET s == Normalize(text)
        coef_match == CoefMatch(s)
        rest == Drop(s, Len(coef_match))
    IN  IF ~VariablesMatch(rest)
        THEN [st |-> "ValueError", val |-> Monomial(0, NoVariables)]
        ELSE IF rest = <<>>
        THEN [st |-> "ok", val |-> Monomial(ReadCoef(coef_match), NoVariables)]
        ELSE [st |-> "ok",
              val |-> MonoClean(
                          Monomial(ReadCoef(coef_match),
                                   ReadLoop(rest, NoVariables, <<>>, <<1>>)))]

\* str() of an integer
RECURSIVE IntStr(_)
IntStr(n) ==
    IF n < 0 THEN <<"-">> \o IntStr(-n)
    ELSE IF n < 10 THEN <<DigitChars[n + 1]>>
    ELSE IntStr(n \div 10) \o <<DigitChars[(n % 10) + 1]>>

\* str.translate(_super)
Translate(s) ==
    [i \in DOMAIN s |->
        IF IsDigit(s[i]) THEN SuperList[IndexIn(DigitChars, s[i]) + 1]
        ELSE s[i]]

\* The name and power of the variables named Letters[k..], as __str__
\* joins them.
RECURSIVE VariablesStr(_, _)
VariablesStr(variables, k) ==
    IF k > Len(Letters) THEN <<>>
    ELSE LET name == Letters[k]
         IN  (IF name \notin DOMAIN variables THEN <<>>
              ELSE <<name>> \o
                   (IF variables[name] = 1 THEN <<>>
                    ELSE (IF variables[name] < 0 THEN <<SuperMinus>>
                          ELSE <<>>)
                         \o Translate(IntStr(Abs(variables[name])))))
             \o VariablesStr(variables, k + 1)

\* Monomial.__str__
MonoStr(m) ==
    IF \A v \in DOMAIN m.variables : m.variables[v] = 0
    THEN IntStr(m.coeffient)
    ELSE (IF m.coeffient = 1 THEN <<>>
          ELSE IF m.coeffient = -1 THEN <<"-">>
          ELSE IntStr(m.coeffient))
         \o VariablesStr(m.variables, 1)

\* str.split(sep): the pieces of s between the occurrences of sep.
RECURSIVE Split(_, _)
Split(s, sep) ==
    IF \A i \in DOMAIN s : s[i] # sep THEN <<s>>
    ELSE LET k == CHOOSE i \in DOMAIN s :
                      s[i] = sep /\ \A j \in 1..(i - 1) : s[j] # sep
         IN  <<SubSeq(s, 1, k - 1)>> \o Split(Drop(s, k), sep)

\* The texts Polynomial.read hands to Monomial.read for one piece between
\* two "+": the part before the first "-", then "-" + each later part.
Subelements(element) ==
    LET parts == Split(element, "-")
    IN  [i \in DOMAIN parts |->
            IF i = 1 THEN parts[1] ELSE <<"-">> \o parts[i]]

\* The texts Polynomial.read hands to Monomial.read, in order.
RECURSIVE Flatten(_)
Flatten(ss) == IF ss = <<>> THEN <<>> ELSE Head(ss) \o Flatten(Tail(ss))

ReadTexts(text) ==
    LET plus == Split(text, "+")
    IN  Flatten([i \in DOMAIN plus |-> Subelements(plus[i])])

\* Polynomial.read: the Monomials read, in order, handed to the constructor;
\* ValueError as soon as one text is not a Monomial.
PolyRead(text) ==
    LET texts == ReadTexts(text)
    IN  IF \E i \in DOMAIN texts : MonoRead(texts[i]).st # "ok"
        THEN [st |-> "ValueError", val |-> <<>>]
        ELSE [st |-> "ok",
              val |-> [i \in DOMAIN texts |-> MonoRead(texts[i]).val]]

\* The loop of Polynomial.__str__ over elements[1:], from position i on.
RECURSIVE PolyStrLoop(_, _)
PolyStrLoop(p, i) ==
    IF i > Len(p) THEN <<>>
    ELSE (IF p[i].coeffient > 0
          THEN <<" ", "+", " ">> \o MonoStr(p[i])
          ELSE <<" ", "-", " ">>
               \o MonoStr(Monomial(-p[i].coeffient, p[i].variables)))
         \o PolyStrLoop(p, i + 1)

\* Polynomial.__str__ of the Monomial values p.
PolyStr(p) ==
    IF p = <<>> THEN <<"0">> ELSE MonoStr(p[1]) \o PolyStrLoop(p, 2)

(***************************************************************************)
(* SpecRead: read a text, format what was read, read that, format again    *)
(***************************************************************************)
Alphabet == {"x", "X", "y", "-", "+", "^", "0", "1", "2", "sup2", " "}

InitRead ==
    \E s \in SeqsUpTo(Alphabet, MaxStrLen) :
        /\ heap = <<>>
        /\ A = <<>>
        /\ B = <<>>
        /\ regs = [r \in RegNames |-> NoResult]
        /\ pc = "start"
        /\ string = s
        /\ formatted = <<>>
        /\ current = <<>>
        /\ shelled = <<>>

\* The text the next read is given: the input first, then what the
\* first pass formatted.
Input == IF pc = "start" THEN string ELSE formatted

\* read() of method op returned the Monomials ms (a Polynomial's elements
\* are sorted by the constructor), or raised.
ReadCall(op, st, ms) ==
    /\ string' = Input
    /\ IF st = "ok"
       THEN /\ heap' = heap \o ms
            /\ A' = PolyInit(heap \o ms,
                             [i \in 1..Len(ms) |-> Len(heap) + i])
            /\ pc' = IF pc = "start" THEN "read1" ELSE "read2"
       ELSE /\ UNCHANGED <<heap, A>>
            /\ pc' = IF pc = "start" THEN "rejected1" ELSE "rejected2"
    /\ regs' = [regs EXCEPT !["R"] =
                  [op |-> op, st |-> st, elements |-> A',
                   in1 |-> <<>>, in2 |-> <<>>]]
    /\ UNCHANGED <<B, formatted, current, shelled>>

\* R = Monomial.read(text)
TermRead ==
    /\ pc = "start" \/ (pc = "str1" /\ regs["R"].op = "mono_read")
    /\ LET r == MonoRead(Input)
       IN  ReadCall("mono_read", r.st,
                    IF r.st = "ok" THEN <<r.val>> ELSE <<>>)

\* R = Polynomial.read(text)
ExprRead ==
    /\ pc = "start" \/ (pc = "str1" /\ regs["R"].op = "poly_read")
    /\ LET r == PolyRead(Input)
       IN  ReadCall("poly_read", r.st, r.val)

\* formatted = str(R) for a Monomial R
TermStr ==
    /\ pc \in {"read1", "read2"}
    /\ regs["R"].op = "mono_read"
    /\ formatted' = MonoStr(heap[A[1]])
    /\ pc' = IF pc = "read1" THEN "str1" ELSE "str2"
    /\ UNCHANGED <<heap, A, B, regs, string, current, shelled>>

\* formatted = str(R) for a Polynomial R
ExprStr ==
    /\ pc \in {"read1", "read2"}
    /\ regs["R"].op = "poly_read"
    /\ formatted' = PolyStr(PolyVal(heap, A))
    /\ pc' = IF pc = "read1" THEN "str1" ELSE "str2"
    /\ UNCHANGED <<heap, A, B, regs, string, current, shelled>>

NextRead ==
    \/ TermRead
    \/ ExprRead
    \/ TermStr
    \/ ExprStr

SpecRead == InitRead /\ [][NextRead]_vars

\* C9: for a text s that read accepts, t = str(read(s)) is accepted by read
\* and str(read(t)) = t, for Monomial.read and for Polynomial.read.
C9_ReadStrIdempotent ==
    /\ pc # "rejected2"
    /\ pc = "str2" => formatted = string

(***************************************************************************)
(* SpecShell: Polynomial.shell, one loop iteration per step                *)
(***************************************************************************)
\* math.gcd of two integers
RECURSIVE Gcd(_, _)
Gcd(a, b) == IF b = 0 THEN Abs(a) ELSE Gcd(Abs(b), Abs(a) % Abs(b))

\* math.gcd(*coefficients)
RECURSIVE GcdAll(_)
GcdAll(coefficients) ==
    IF coefficients = <<>> THEN 0
    ELSE Gcd(Head(coefficients), GcdAll(Tail(coefficients)))

\* e.clean() for every element.
CleanAll(h, elements) ==
    [id \in DOMAIN h |->
        IF id \in Range(elements) THEN MonoClean(h[id]) ELSE h[id]]

\* gc_mono taking the power of var from the first element, elements[0],
\* instead of the last one.
GcMonoFirst(h, elements, var) ==
    LET h1 == CleanAll(h, elements)
        first == h1[elements[1]]
        gcd_coef == GcdAll([i \in DOMAIN elements |->
                               h1[elements[i]].coeffient])
    IN  IF var \notin DOMAIN first.variables
        THEN [st |-> "KeyError", heap |-> h1, factor |-> 0]
        ELSE [st |-> "ok",
              heap |-> Append(h1, MonoClean(
                          Monomial(gcd_coef,
                                   OneVariable(var, first.variables[var])))),
              factor |-> Len(h1) + 1]

\* Polynomial.gc_mono(var): every element is cleaned; the factor is the gcd
\* of the coeffients times var to the power it has in the last element, a
\* new cleaned Monomial; KeyError when the last element has no var.
GcMono(h, elements, var) ==
    LET h1 == CleanAll(h, elements)
        last == h1[elements[Len(elements)]]
        gcd_coef == GcdAll([i \in DOMAIN elements |->
                               h1[elements[i]].coeffient])
    IN  IF var \notin DOMAIN last.variables
        THEN [st |-> "KeyError", heap |-> h1, factor |-> 0]
        ELSE [st |-> "ok",
              heap |-> Append(h1, MonoClean(
                          Monomial(gcd_coef,
                                   OneVariable(var, last.variables[var])))),
              factor |-> Len(h1) + 1]

\* Polynomial.n_variables
NVariables(h, elements) ==
    Cardinality(UNION {DOMAIN h[elements[i]].variables :
                          i \in DOMAIN elements})

ShellTerms ==
    {Monomial(c, vs) :
        c \in (-1)..MaxShellCoef,
        vs \in {NoVariables}
                \cup {OneVariable("x", p) : p \in ((-1)..MaxShellExp) \ {0}}}

\* The lists a Polynomial's elements can be: sorted by key, descending.
IsSorted(l) == \A i, j \in DOMAIN l : i < j => SortKey(l[i]) >= SortKey(l[j])

InitShell ==
    \E l \in {m \in SeqsUpTo(ShellTerms, MaxShellLen) : IsSorted(m)} :
        /\ heap = l
        /\ A = PolyInit(l, [i \in 1..Len(l) |-> i])
        /\ B = <<>>
        /\ regs = [r \in RegNames |-> NoResult]
        /\ pc = "start"
        /\ string = <<>>
        /\ formatted = <<>>
        /\ current = <<>>
        /\ shelled = <<>>

\* The variable shell() works with: the first key of elements[0].variables
\* (the only key, past the n_variables check).
ShellVar == CHOOSE v \in DOMAIN heap[A[1]].variables : TRUE

\* shell() up to the loop: the checks, var, deepcopy(self).
ShellEnter ==
    /\ pc = "start"
    /\ IF A = <<>> \/ NVariables(heap, A) > 1
       THEN pc' = "ValueError" /\ UNCHANGED <<heap, current>>
       ELSE IF DOMAIN heap[A[1]].variables = {}
       THEN pc' = "IndexError" /\ UNCHANGED <<heap, current>>
       ELSE LET c == DeepCopy(heap, A)
            IN  /\ heap' = c.heap
                /\ current' = c.elements
                /\ pc' = "loop"
    /\ UNCHANGED <<A, B, regs, string, formatted, shelled>>

\* The body of the while loop on the Polynomial `elements`: how it ends
\* ("ok": the loop goes on, "break", or the exception raised), the heap and
\* current it leaves, and the tuple it appends to shelled.
ShellBody(h, elements, var) ==
    LET last == elements[Len(elements)]
        \* is_constant cleans the last element
        h1 == [h EXCEPT ![last] = MonoClean(@)]
        is_constant == DOMAIN h1[last].variables = {}
        constant == IF is_constant THEN h1[last].coeffient ELSE 0
        cur1 == IF is_constant
                THEN PolyInit(h1, SubSeq(elements, 1, Len(elements) - 1))
                ELSE elements
        g == GcMono(h1, cur1, var)
        d == PolyDiv(g.heap, cur1, <<g.factor>>)
        none == [factor |-> 0, current |-> <<>>, constant |-> 0]
    IN  IF g.st # "ok"
        THEN [st |-> g.st, heap |-> g.heap, current |-> cur1, tuple |-> none]
        ELSE IF g.heap[g.factor].coeffient = 1
                /\ DOMAIN g.heap[g.factor].variables = {}
        THEN [st |-> "break", heap |-> g.heap, current |-> cur1,
              tuple |-> none]
        ELSE IF d.st # "ok"
        THEN [st |-> d.st, heap |-> d.heap, current |-> cur1, tuple |-> none]
        ELSE [st |-> "ok", heap |-> d.heap, current |-> d.elements,
              tuple |-> [factor |-> g.factor, current |-> d.elements,
                         constant |-> constant]]

\* One iteration of the while loop.
ShellIteration ==
    /\ pc = "loop"
    /\ Len(current) # 1
    /\ \E r \in {ShellBody(heap, current, ShellVar)} :
        /\ heap' = r.heap
        /\ current' = r.current
        /\ shelled' = IF r.st = "ok" THEN Append(shelled, r.tuple)
                      ELSE shelled
        /\ pc' = IF r.st = "ok" THEN "loop"
                 ELSE IF r.st = "break" THEN "returned"
                 ELSE r.st
    /\ UNCHANGED <<A, B, regs, string, formatted>>

\* The loop test fails: return shelled.
ShellReturn ==
    /\ pc = "loop"
    /\ Len(current) = 1
    /\ pc' = "returned"
    /\ UNCHANGED <<heap, A, B, regs, string, formatted, current, shelled>>

NextShell ==
    \/ ShellEnter
    \/ ShellIteration
    \/ ShellReturn

\* shell() has returned or raised.
ShellEnded ==
    pc \in {"returned", "ValueError", "IndexError", "KeyError",
            "ZeroDivisionError"}

\* The interpreter keeps running the call until it returns or raises: each
\* step is weakly fair.  For ShellIteration the condition is written out,
\* with what ENABLED <<ShellIteration>>_vars comes to: the loop test holds
\* (the body has a branch for every case, and each of them changes pc or
\* extends shelled).
ShellFairness ==
    /\ WF_vars(ShellEnter)
    /\ WF_vars(ShellReturn)
    /\ \/ []<>~(pc = "loop" /\ Len(current) # 1)
       \/ []<><<ShellIteration>>_vars

SpecShell == InitShell /\ [][NextShell]_vars /\ ShellFairness

\* How far the loop is from a one-Monomial Polynomial: twice the number of
\* elements, one less when the last element is a constant.
Distance ==
    2 * Len(current)
    - (IF current # <<>>
          /\ DOMAIN MonoClean(heap[current[Len(current)]]).variables = {}
       THEN 1 ELSE 0)

\* C10: shell() stops (it returns or raises); an iteration after which the
\* loop goes on has brought the Polynomial strictly closer to one Monomial;
\* at most twice as many tuples are extracted as self has Monomials.
C10_ShellTerminates ==
    /\ <>ShellEnded
    /\ [][(pc = "loop" /\ pc' = "loop") => Distance' < Distance]_vars
    /\ [](Len(shelled) <= 2 * Len(A))

\* shell() returned after as many iterations as self has Monomials, at
\* least two.
C10_Witness ==
    /\ pc = "returned"
    /\ Len(A) >= 2
    /\ Len(shelled) = Len(A)

====
